---- MODULE Spec2Model ----
(***************************************************************************)
(* The MapReduce coordinator ("Master") and its workers: mr/master.go and  *)
(* mr/worker.go.  The master's handlers run under the package mutex mu, so *)
(* each handler is one action.  The goroutine started by TaskCompleted     *)
(* ("go m.processTaskResult(task)") is a separate action that runs when    *)
(* the scheduler lets it take the mutex.                                   *)
(***************************************************************************)
EXTENDS Integers, Sequences, FiniteSets, Bags, TLC

\* ---------------------------------------------------------------- bounds
MaxFiles == 2       \* input files: len(files) ranges over 1..MaxFiles
MaxReduce == 2      \* nReduce ranges over 1..MaxReduce
NumWorkers == 2     \* worker processes
MaxPending == 2     \* processTaskResult goroutines waiting for the mutex
MaxRemerge == 1     \* Map completion reports accepted beyond one per input file
MaxFilesFine == 1   \* input files, where file writes are modelled call by call
MaxReduceFine == 2  \* nReduce, where file writes are modelled call by call
MaxReduceFault == 1 \* nReduce, where file system calls may fail

\* ------------------------------------------------------ program constants
SweepInterval == 5          \* time.Sleep(5 * time.Second) in catchTimeOut
StalenessThreshold == 10    \* 10 * time.Second in catchTimeOut
FnvOffsetHi == 33052        \* FNV-1a offset basis 0x811C9DC5, high 16 bits
FnvOffsetLo == 40389        \* FNV-1a offset basis 0x811C9DC5, low 16 bits
FnvPrimeLo == 403           \* FNV prime 0x01000193 = 2^24 + 403
Word16 == 65536             \* 2^16: ihash is computed on two 16-bit halves

VARIABLES
    InputFiles,     \* Master.InputFiles: the number of input files (file m is id m)
    NReduce,        \* Master.NReduce
    Phase,          \* Master.Phase
    TaskQueue,      \* Master.TaskQueue: the buffered channel, as a sequence
    TaskMeta,       \* Master.TaskMeta: id -> MasterTask
    InterMediates,  \* Master.InterMediates: bucket (0..NReduce-1) -> file refs
    pending,        \* bag of tasks whose processTaskResult goroutine waits for mu
    mstate,         \* "running", "blocked" (stuck in a channel send holding mu), "panicked"
    sweeper,        \* catchTimeOut: "sleep", "ready" (slept 5 s), "stopped"
    pc,             \* worker -> position in Worker's loop
    wtask,          \* worker -> the Task it holds (the RPC reply, then its own copy)
    disk            \* the workers' directory: file name -> contents

vars == <<InputFiles, NReduce, Phase, TaskQueue, TaskMeta, InterMediates,
          pending, mstate, sweeper, pc, wtask, disk>>

mvars == <<Phase, TaskQueue, TaskMeta, InterMediates, pending, mstate>>

Workers == 1..NumWorkers

\* The worker that keeps running its loop.  Any other worker may stop taking
\* steps at any point, for good (a crash) or for a while (a hang): the master
\* cannot tell the two apart, and neither takes an action of its own.
ReliableWorker == 1

max(a, b) == IF a > b THEN a ELSE b

min(a, b) == IF a < b THEN a ELSE b

\* ------------------------------------------------------------ data types
\* Task.Input of a task that names no file ("", the zero value).
NoInput == -1

\* type Task, without NReducer (always Master.NReduce) and Output (never
\* read by the master).  Input file names are the file indices 0..N-1.
Task(id, state, input, files) ==
    [Id |-> id, TaskState |-> state, Input |-> input, InterMediates |-> files]

\* Task{}: the zero value, which is also what an unfilled RPC reply holds
\* (State Map is iota 0).
ZeroTask == Task(0, "Map", NoInput, <<>>)

\* Task{TaskState: Wait} and Task{TaskState: Exit}
Sentinel(state) == Task(0, state, NoInput, <<>>)

\* type MasterTask.  StartTime is kept as the time elapsed since it was
\* stamped (Age), saturating one tick above the threshold: the code only
\* ever compares time.Now().Sub(StartTime) with 10 s.  The code reads
\* StartTime of InProgress records only, and AssignTask stamps it whenever a
\* record becomes InProgress: the Age of a record in another status is not
\* tracked and stays at AgeCap (as does the zero StartTime of a new record).
MasterTask(status, age, task) == [TaskStatus |-> status, Age |-> age, TaskPtr |-> task]

AgeCap == StalenessThreshold + SweepInterval

\* t.TaskStatus = status, for a status other than InProgress
SetStatus(rec, status) == [rec EXCEPT !.TaskStatus = status, !.Age = AgeCap]

\* filepath.Join(dir, "mr-<MapId>-<reduceId>")
InterName(m, r) == <<"mr", m, r>>

\* "mr-out-<id>"
OutName(r) == <<"mr-out", r>>

\* ------------------------------------------------- user functions, inputs
\* Keys are byte strings: "a" and "b".
KeyA == <<97>>

KeyB == <<98>>

\* The words of input file m (its contents, already split).
InputContents(m) == IF m % 2 = 0 THEN <<KeyA, KeyB>> ELSE <<KeyA>>

\* mrapps/indexer.go Map: one (word, document) pair per distinct word.
mapf(m) == [i \in 1..Len(InputContents(m)) |->
               [Key |-> InputContents(m)[i], Value |-> m]]

RECURSIVE InsertSorted(_, _)
InsertSorted(x, s) ==
    IF s = <<>> THEN <<x>>
    ELSE IF x < Head(s) THEN <<x>> \o s
    ELSE <<Head(s)>> \o InsertSorted(x, Tail(s))

RECURSIVE SortValues(_)
SortValues(s) == IF s = <<>> THEN <<>> ELSE InsertSorted(Head(s), SortValues(Tail(s)))

\* mrapps/indexer.go Reduce: "<count> <sorted, comma-joined documents>".
reducef(key, values) == <<Len(values), SortValues(values)>>

\* ------------------------------------------------------------ worker.go
RECURSIVE Xor(_, _)
Xor(a, b) ==
    IF a = 0 THEN b
    ELSE IF b = 0 THEN a
    ELSE ((a + b) % 2) + 2 * Xor(a \div 2, b \div 2)

\* One FNV-1a round on h = hi * 2^16 + lo: h = (h XOR byte) * 0x01000193 mod 2^32.
FnvRound(h, byte) ==
    LET lo == Xor(h.lo, byte)
        p  == lo * FnvPrimeLo
    IN  [lo |-> p % Word16,
         hi |-> (h.hi * FnvPrimeLo + (p \div Word16) + (lo % 256) * 256) % Word16]

RECURSIVE Fnv32a(_, _)
Fnv32a(h, bytes) ==
    IF bytes = <<>> THEN h ELSE Fnv32a(FnvRound(h, Head(bytes)), Tail(bytes))

\* ihash: int(h.Sum32() & 0x7fffffff)
ihash(key) ==
    LET h == Fnv32a([hi |-> FnvOffsetHi, lo |-> FnvOffsetLo], key)
    IN  (h.hi % (Word16 \div 2)) * Word16 + h.lo

\* string comparison a < b, byte by byte
RECURSIVE KeyLess(_, _)
KeyLess(a, b) ==
    IF b = <<>> THEN FALSE
    ELSE IF a = <<>> THEN TRUE
    ELSE IF Head(a) # Head(b) THEN Head(a) < Head(b)
    ELSE KeyLess(Tail(a), Tail(b))

\* Mutant of Partition: the slot also depends on the task (as with a hash
\* seeded per execution), slot := (ihash(Key) + m) % NReducer.
Partition_ByTask(m, slot, nReducer) ==
    SelectSeq(mapf(m), LAMBDA kv : (ihash(kv.Key) + m) % nReducer = slot)

\* mapper: buffer[slot], the pairs of Map task input m for bucket slot
\* (slot := ihash(Key) % NReducer), in the order mapf emitted them.
Partition(m, slot, nReducer) ==
    SelectSeq(mapf(m), LAMBDA kv : ihash(kv.Key) % nReducer = slot)

\* mapper: mapOutput, the paths writeToLocalFile returned for buckets 0..NReducer-1
mapOutput(id, nReducer) == [i \in 1..nReducer |-> InterName(id, i - 1)]

\* readFromLocalFile: the pairs of the files, concatenated (files all exist)
RECURSIVE readFromLocalFile(_, _)
readFromLocalFile(files, d) ==
    IF files = <<>> THEN <<>>
    ELSE d[Head(files)] \o readFromLocalFile(Tail(files), d)

RECURSIVE InsertByKey(_, _)
InsertByKey(kv, s) ==
    IF s = <<>> THEN <<kv>>
    ELSE IF KeyLess(kv.Key, Head(s).Key) THEN <<kv>> \o s
    ELSE <<Head(s)>> \o InsertByKey(kv, Tail(s))

\* sort.Sort(ByKey(intermediate)).  The order of equal keys is unspecified
\* in Go; reducef sorts the values it is given, so an insertion sort stands
\* for any of them.
RECURSIVE SortByKey(_)
SortByKey(s) ==
    IF s = <<>> THEN <<>> ELSE InsertByKey(Head(s), SortByKey(Tail(s)))

\* reducer: j, the end of the run of pairs whose key equals the first one's
RECURSIVE RunEnd(_, _)
RunEnd(s, j) ==
    IF j <= Len(s) /\ s[j].Key = s[j - 1].Key THEN RunEnd(s, j + 1) ELSE j

\* reducer: the i/j loop over the sorted pairs, one output line per run of
\* consecutive equal keys ("%v %v\n", key, reducef(key, values))
RECURSIVE reduceLines(_)
reduceLines(s) ==
    IF s = <<>> THEN <<>>
    ELSE LET j      == RunEnd(s, 2)
             values == [k \in 1..(j - 1) |-> s[k].Value]
         IN  <<[Key |-> s[1].Key, Value |-> reducef(s[1].Key, values)]>>
             \o reduceLines(SubSeq(s, j, Len(s)))

\* ------------------------------------------------------------ master.go
\* cap(m.TaskQueue): make(chan *Task, max(nReduce, len(files)))
QueueCap == max(NReduce, InputFiles)

\* createMapTask: the queue and the records after the loop over InputFiles
\* (the channel's capacity is at least len(files): no send blocks)
createMapTask(n) ==
    [queue |-> [i \in 1..n |-> Task(i - 1, "Map", i - 1, <<>>)],
     meta  |-> [id \in 0..(n - 1) |->
                  MasterTask("Idle", AgeCap, Task(id, "Map", id, <<>>))]]

\* Mutant of createReduceTask: without "m.TaskMeta = make(...)" the Reduce
\* records are stored into the Map record set, whose other records stay.
createReduceTask_Merging(queue, matrix) ==
    LET sent == min(NReduce, QueueCap - Len(queue))
        task(idx) == Task(idx, "Reduce", NoInput, matrix[idx])
    IN  [queue   |-> queue \o [i \in 1..sent |-> task(i - 1)],
         meta    |-> [id \in DOMAIN TaskMeta \cup 0..(sent - 1) |->
                        IF id < sent THEN MasterTask("Idle", AgeCap, task(id))
                        ELSE TaskMeta[id]],
         blocked |-> sent < NReduce]

\* createReduceTask: TaskMeta is replaced, then for idx = 0, 1, ... the task
\* is sent on the channel and its record stored.  A send on a full channel
\* never returns (the sender holds mu, so nothing can receive): the loop
\* stops before that task's record is stored.
createReduceTask(queue, matrix) ==
    LET sent == min(NReduce, QueueCap - Len(queue))
        task(idx) == Task(idx, "Reduce", NoInput, matrix[idx])
    IN  [queue   |-> queue \o [i \in 1..sent |-> task(i - 1)],
         meta    |-> [id \in 0..(sent - 1) |-> MasterTask("Idle", AgeCap, task(id))],
         blocked |-> sent < NReduce]

\* allTaskDone
allTaskDone(meta) == \A id \in DOMAIN meta : meta[id].TaskStatus = "Completed"

\* Done
Done == Phase = "Exit"

Init ==
    /\ InputFiles \in 1..MaxFiles
    /\ NReduce \in 1..MaxReduce
    /\ Phase = "Map"
    /\ TaskQueue = createMapTask(InputFiles).queue
    /\ TaskMeta = createMapTask(InputFiles).meta
    /\ InterMediates = [r \in 0..(NReduce - 1) |-> <<>>]
    /\ pending = EmptyBag
    /\ mstate = "running"
    /\ sweeper = "sleep"
    /\ pc = [w \in Workers |-> "fetch"]
    /\ wtask = [w \in Workers |-> ZeroTask]
    /\ disk = <<>>

\* Where Worker's loop goes with the reply of getTaskFromMaster
Dispatch(state) ==
    CASE state = "Wait" -> "wait"
      [] state = "Exit" -> "exited"
      [] OTHER -> "exec"

\* Mutant of AssignTask: without "StartTime = time.Now()" the record keeps
\* the dispatch time it had.
AssignTask_KeepStartTime(w) ==
    /\ pc[w] = "fetch"
    /\ mstate = "running"
    /\ IF Len(TaskQueue) > 0
       THEN LET reply == Head(TaskQueue) IN
            /\ TaskQueue' = Tail(TaskQueue)
            /\ IF reply.Id \in DOMAIN TaskMeta
               THEN /\ TaskMeta' = [TaskMeta EXCEPT ![reply.Id].TaskStatus = "InProgress"]
                    /\ wtask' = [wtask EXCEPT ![w] = reply]
                    /\ pc' = [pc EXCEPT ![w] = Dispatch(reply.TaskState)]
                    /\ UNCHANGED mstate
               ELSE /\ mstate' = "panicked"
                    /\ wtask' = [wtask EXCEPT ![w] = ZeroTask]
                    /\ pc' = [pc EXCEPT ![w] = Dispatch(ZeroTask.TaskState)]
                    /\ UNCHANGED TaskMeta
       ELSE LET reply == IF Phase = "Exit" THEN Sentinel("Exit") ELSE Sentinel("Wait") IN
            /\ wtask' = [wtask EXCEPT ![w] = reply]
            /\ pc' = [pc EXCEPT ![w] = Dispatch(reply.TaskState)]
            /\ UNCHANGED <<TaskQueue, TaskMeta, mstate>>
    /\ UNCHANGED <<InputFiles, NReduce, Phase, InterMediates, pending, sweeper, disk>>

\* AssignTask, called by worker w (getTaskFromMaster).  A queue entry whose
\* id has no record makes m.TaskMeta[reply.Id] nil: the handler panics and
\* the master process dies; the worker's call returns an error and
\* getTaskFromMaster returns the reply as it was declared (a zero Task).
AssignTask(w) ==
    /\ pc[w] = "fetch"
    /\ mstate = "running"
    /\ IF Len(TaskQueue) > 0
       THEN LET reply == Head(TaskQueue) IN
            /\ TaskQueue' = Tail(TaskQueue)
            /\ IF reply.Id \in DOMAIN TaskMeta
               THEN /\ TaskMeta' = [TaskMeta EXCEPT ![reply.Id].TaskStatus = "InProgress",
                                                    ![reply.Id].Age = 0]
                    /\ wtask' = [wtask EXCEPT ![w] = reply]
                    /\ pc' = [pc EXCEPT ![w] = Dispatch(reply.TaskState)]
                    /\ UNCHANGED mstate
               ELSE /\ mstate' = "panicked"
                    /\ wtask' = [wtask EXCEPT ![w] = ZeroTask]
                    /\ pc' = [pc EXCEPT ![w] = Dispatch(ZeroTask.TaskState)]
                    /\ UNCHANGED TaskMeta
       ELSE LET reply == IF Phase = "Exit" THEN Sentinel("Exit") ELSE Sentinel("Wait") IN
            /\ wtask' = [wtask EXCEPT ![w] = reply]
            /\ pc' = [pc EXCEPT ![w] = Dispatch(reply.TaskState)]
            /\ UNCHANGED <<TaskQueue, TaskMeta, mstate>>
    /\ UNCHANGED <<InputFiles, NReduce, Phase, InterMediates, pending, sweeper, disk>>

\* The Map completion reports accepted so far: each is waiting in pending or
\* has been appended to every bucket of the matrix.
AcceptedMaps ==
    LET maps == {t \in BagToSet(pending) : t.TaskState = "Map"}
    IN  Len(InterMediates[0]) + BagCardinality([t \in maps |-> CopiesIn(t, pending)])

\* The bounds of the model on accepting one more report of the task
WithinBounds(task) ==
    /\ BagCardinality(pending) < MaxPending
    /\ task.TaskState = "Map" => AcceptedMaps < InputFiles + MaxRemerge

\* Mutant of TaskCompleted: the guard lacks "TaskStatus == Completed", so a
\* duplicate report is accepted again.
TaskCompleted_NoCompletedGuard(w) ==
    LET task == wtask[w] IN
    /\ pc[w] = "report"
    /\ mstate = "running"
    /\ IF task.TaskState # Phase
       THEN UNCHANGED <<TaskMeta, pending, mstate>>
       ELSE IF task.Id \notin DOMAIN TaskMeta
       THEN /\ mstate' = "panicked"
            /\ UNCHANGED <<TaskMeta, pending>>
       ELSE /\ WithinBounds(task)
            /\ TaskMeta' = [TaskMeta EXCEPT
                              ![task.Id] = SetStatus(TaskMeta[task.Id], "Completed")]
            /\ pending' = pending (+) SetToBag({task})
            /\ UNCHANGED mstate
    /\ pc' = [pc EXCEPT ![w] = "fetch"]
    /\ wtask' = [wtask EXCEPT ![w] = ZeroTask]
    /\ UNCHANGED <<InputFiles, NReduce, Phase, TaskQueue, InterMediates, sweeper, disk>>

\* Mutant of TaskCompleted: the guard lacks "task.TaskState != m.Phase", so a
\* report of another phase is looked up by its id and accepted.
TaskCompleted_NoPhaseGuard(w) ==
    LET task == wtask[w] IN
    /\ pc[w] = "report"
    /\ mstate = "running"
    /\ IF task.Id \notin DOMAIN TaskMeta
       THEN /\ mstate' = "panicked"
            /\ UNCHANGED <<TaskMeta, pending>>
       ELSE IF TaskMeta[task.Id].TaskStatus = "Completed"
       THEN UNCHANGED <<TaskMeta, pending, mstate>>
       ELSE /\ WithinBounds(task)
            /\ TaskMeta' = [TaskMeta EXCEPT
                              ![task.Id] = SetStatus(TaskMeta[task.Id], "Completed")]
            /\ pending' = pending (+) SetToBag({task})
            /\ UNCHANGED mstate
    /\ pc' = [pc EXCEPT ![w] = "fetch"]
    /\ wtask' = [wtask EXCEPT ![w] = ZeroTask]
    /\ UNCHANGED <<InputFiles, NReduce, Phase, TaskQueue, InterMediates, sweeper, disk>>

\* TaskCompleted, called by worker w (taskCompleted) with its task.  On
\* acceptance it starts "go m.processTaskResult(task)".
TaskCompleted(w) ==
    LET task == wtask[w] IN
    /\ pc[w] = "report"
    /\ mstate = "running"
    /\ IF task.TaskState # Phase
       THEN UNCHANGED <<TaskMeta, pending, mstate>>
       ELSE IF task.Id \notin DOMAIN TaskMeta
       THEN /\ mstate' = "panicked"
            /\ UNCHANGED <<TaskMeta, pending>>
       ELSE IF TaskMeta[task.Id].TaskStatus = "Completed"
       THEN UNCHANGED <<TaskMeta, pending, mstate>>
       ELSE /\ WithinBounds(task)
            /\ TaskMeta' = [TaskMeta EXCEPT
                              ![task.Id] = SetStatus(TaskMeta[task.Id], "Completed")]
            /\ pending' = pending (+) SetToBag({task})
            /\ UNCHANGED mstate
    /\ pc' = [pc EXCEPT ![w] = "fetch"]
    /\ wtask' = [wtask EXCEPT ![w] = ZeroTask]
    /\ UNCHANGED <<InputFiles, NReduce, Phase, TaskQueue, InterMediates, sweeper, disk>>

\* processTaskResult(task): the goroutine TaskCompleted started, once it
\* holds mu.
processTaskResult(task) ==
    /\ BagIn(task, pending)
    /\ mstate = "running"
    /\ pending' = pending (-) SetToBag({task})
    /\ IF task.TaskState = "Map"
       THEN LET matrix == [reduceId \in DOMAIN InterMediates |->
                              IF reduceId + 1 \in DOMAIN task.InterMediates
                              THEN Append(InterMediates[reduceId],
                                          task.InterMediates[reduceId + 1])
                              ELSE InterMediates[reduceId]]
                created == createReduceTask(TaskQueue, matrix)
            IN  /\ InterMediates' = matrix
                /\ IF allTaskDone(TaskMeta)
                   THEN /\ TaskQueue' = created.queue
                        /\ TaskMeta' = created.meta
                        /\ IF created.blocked
                           THEN mstate' = "blocked" /\ UNCHANGED Phase
                           ELSE Phase' = "Reduce" /\ UNCHANGED mstate
                   ELSE UNCHANGED <<TaskQueue, TaskMeta, Phase, mstate>>
       ELSE /\ Phase' = IF task.TaskState = "Reduce" /\ allTaskDone(TaskMeta)
                        THEN "Exit" ELSE Phase
            /\ UNCHANGED <<TaskQueue, TaskMeta, InterMediates, mstate>>
    /\ UNCHANGED <<InputFiles, NReduce, sweeper, pc, wtask, disk>>

\* The orders in which "range m.TaskMeta" can visit the ids of S
Orders(S) ==
    {o \in [1..Cardinality(S) -> S] : \A i, j \in DOMAIN o : i # j => o[i] # o[j]}

\* Mutant of catchTimeOut: the staleness test is ">=" instead of ">", so a
\* record dispatched exactly StalenessThreshold seconds ago is reclaimed.
catchTimeOut_AtThreshold ==
    /\ sweeper = "ready"
    /\ mstate = "running"
    /\ IF Phase = "Exit"
       THEN /\ sweeper' = "stopped"
            /\ UNCHANGED <<TaskQueue, TaskMeta, mstate>>
       ELSE LET stale == {id \in DOMAIN TaskMeta :
                            /\ TaskMeta[id].TaskStatus = "InProgress"
                            /\ TaskMeta[id].Age >= StalenessThreshold}
                sent  == min(Cardinality(stale), QueueCap - Len(TaskQueue))
            IN  \E order \in Orders(stale) :
                  /\ TaskQueue' = TaskQueue \o
                                     [i \in 1..sent |-> TaskMeta[order[i]].TaskPtr]
                  /\ TaskMeta' = [id \in DOMAIN TaskMeta |->
                                    IF \E i \in 1..sent : order[i] = id
                                    THEN SetStatus(TaskMeta[id], "Idle")
                                    ELSE TaskMeta[id]]
                  /\ IF sent < Cardinality(stale)
                     THEN mstate' = "blocked" /\ UNCHANGED sweeper
                     ELSE sweeper' = "sleep" /\ UNCHANGED mstate
    /\ UNCHANGED <<InputFiles, NReduce, Phase, InterMediates, pending, pc, wtask, disk>>

\* catchTimeOut: one round of the loop after its time.Sleep.  Each stale
\* InProgress record's task is sent on the channel and the record reset to
\* Idle, in map-iteration order; a send on a full channel never returns.
catchTimeOut ==
    /\ sweeper = "ready"
    /\ mstate = "running"
    /\ IF Phase = "Exit"
       THEN /\ sweeper' = "stopped"
            /\ UNCHANGED <<TaskQueue, TaskMeta, mstate>>
       ELSE LET stale == {id \in DOMAIN TaskMeta :
                            /\ TaskMeta[id].TaskStatus = "InProgress"
                            /\ TaskMeta[id].Age > StalenessThreshold}
                sent  == min(Cardinality(stale), QueueCap - Len(TaskQueue))
            IN  \E order \in Orders(stale) :
                  /\ TaskQueue' = TaskQueue \o
                                     [i \in 1..sent |-> TaskMeta[order[i]].TaskPtr]
                  /\ TaskMeta' = [id \in DOMAIN TaskMeta |->
                                    IF \E i \in 1..sent : order[i] = id
                                    THEN SetStatus(TaskMeta[id], "Idle")
                                    ELSE TaskMeta[id]]
                  /\ IF sent < Cardinality(stale)
                     THEN mstate' = "blocked" /\ UNCHANGED sweeper
                     ELSE sweeper' = "sleep" /\ UNCHANGED mstate
    /\ UNCHANGED <<InputFiles, NReduce, Phase, InterMediates, pending, pc, wtask, disk>>

\* SweepInterval seconds pass: every InProgress record is that much older
\* (the other records' StartTime is not read before AssignTask stamps it
\* again), and catchTimeOut's time.Sleep returns.
Tick ==
    /\ TaskMeta' = [id \in DOMAIN TaskMeta |->
                      IF TaskMeta[id].TaskStatus = "InProgress"
                      THEN [TaskMeta[id] EXCEPT
                               !.Age = min(TaskMeta[id].Age + SweepInterval, AgeCap)]
                      ELSE TaskMeta[id]]
    /\ sweeper' = IF sweeper = "sleep" THEN "ready" ELSE sweeper
    /\ UNCHANGED <<InputFiles, NReduce, Phase, TaskQueue, InterMediates, pending,
                   mstate, pc, wtask, disk>>

\* ------------------------------------------------------ worker processes
\* mapper, up to the call of taskCompleted: log.Fatal if the input cannot be
\* read; else one file per bucket is written and renamed into place.
mapper(w) ==
    LET task == wtask[w]
        out  == mapOutput(task.Id, NReduce)
        new  == {out[i] : i \in DOMAIN out}
    IN  IF task.Input = NoInput
        THEN /\ pc' = [pc EXCEPT ![w] = "dead"]
             /\ wtask' = [wtask EXCEPT ![w] = ZeroTask]
             /\ UNCHANGED disk
        ELSE /\ disk' = [f \in DOMAIN disk \cup new |->
                            IF f \in new
                            THEN Partition(task.Input, f[3], NReduce)
                            ELSE disk[f]]
             /\ wtask' = [wtask EXCEPT ![w].InterMediates = out]
             /\ pc' = [pc EXCEPT ![w] = "report"]

\* reducer, up to the call of taskCompleted: log.Fatal if an intermediate
\* file cannot be opened; else mr-out-<Id> is written and renamed into place.
reducer(w) ==
    LET task == wtask[w]
        files == task.InterMediates
    IN  IF \E i \in DOMAIN files : files[i] \notin DOMAIN disk
        THEN /\ pc' = [pc EXCEPT ![w] = "dead"]
             /\ wtask' = [wtask EXCEPT ![w] = ZeroTask]
             /\ UNCHANGED disk
        ELSE LET name == OutName(task.Id)
                 lines == reduceLines(SortByKey(readFromLocalFile(files, disk)))
             IN  /\ disk' = [f \in DOMAIN disk \cup {name} |->
                                IF f = name THEN lines ELSE disk[f]]
                 /\ UNCHANGED wtask
                 /\ pc' = [pc EXCEPT ![w] = "report"]

\* Worker: the switch on task.TaskState for a Map or Reduce task
Execute(w) ==
    /\ pc[w] = "exec"
    /\ IF wtask[w].TaskState = "Map" THEN mapper(w) ELSE reducer(w)
    /\ UNCHANGED <<InputFiles, NReduce, mvars, sweeper>>

\* Worker: case Wait, time.Sleep is over; the next iteration declares a
\* new task
WakeUp(w) ==
    /\ pc[w] = "wait"
    /\ pc' = [pc EXCEPT ![w] = "fetch"]
    /\ wtask' = [wtask EXCEPT ![w] = ZeroTask]
    /\ UNCHANGED <<InputFiles, NReduce, mvars, sweeper, disk>>

\* call: rpc.DialHTTP fails once the master process is gone: os.Exit(0)
CallFails(w) ==
    /\ pc[w] \in {"fetch", "report"}
    /\ mstate = "panicked"
    /\ pc' = [pc EXCEPT ![w] = "dead"]
    /\ wtask' = [wtask EXCEPT ![w] = ZeroTask]
    /\ UNCHANGED <<InputFiles, NReduce, mvars, sweeper, disk>>

Next ==
    \/ \E w \in Workers : AssignTask(w)
    \/ \E w \in Workers : TaskCompleted(w)
    \/ \E task \in BagToSet(pending) : processTaskResult(task)
    \/ catchTimeOut
    \/ Tick
    \/ \E w \in Workers : Execute(w)
    \/ \E w \in Workers : WakeUp(w)
    \/ \E w \in Workers : CallFails(w)

Spec == Init /\ [][Next]_vars

\* The scheduling the code can rely on: time passes, the sweeper goroutine
\* and the processTaskResult goroutines get the mutex when it is free, and
\* the reliable worker keeps running its loop.  No other worker is assumed
\* to take any step.
Fairness ==
    /\ WF_vars(Tick)
    /\ WF_vars(catchTimeOut)
    /\ WF_vars(\E task \in BagToSet(pending) : processTaskResult(task))
    /\ WF_vars(AssignTask(ReliableWorker))
    /\ WF_vars(Execute(ReliableWorker))
    /\ WF_vars(TaskCompleted(ReliableWorker))
    /\ WF_vars(WakeUp(ReliableWorker))
    /\ WF_vars(CallFails(ReliableWorker))

FairSpec == Spec /\ Fairness

\* ------------------------------------- worker processes, call by call
\* Execute above runs mapper or reducer in one step, which is all the master
\* can tell.  Below, the same two functions take one step per file system
\* call, so that other workers' calls interleave with them.  A worker at
\* "create" is about to call ioutil.TempFile, a worker at "write" has its
\* temporary file open.  mapper's local mapOutput is kept in the
\* InterMediates field of the worker's task, where mapper stores it at the
\* end: its length is the loop index i.

\* Mutant of TempName: the records are written to the final name directly.
TempName_Final(w) ==
    IF wtask[w].TaskState = "Map"
    THEN InterName(wtask[w].Id, Len(wtask[w].InterMediates))
    ELSE OutName(wtask[w].Id)

\* ioutil.TempFile(dir, "mr-tmp-*"): a name no other process uses.  A worker
\* has one temporary file open at a time; one it left behind is never opened
\* again, so its slot stands for the next one.
TempName(w) == <<"mr-tmp", w>>

\* The name the open temporary file is renamed to: outputName in
\* writeToLocalFile, oname in reducer
FinalName(w) ==
    IF wtask[w].TaskState = "Map"
    THEN InterName(wtask[w].Id, Len(wtask[w].InterMediates))
    ELSE OutName(wtask[w].Id)

\* The records the worker writes into the file it has open: buffer[i] in
\* mapper, one line per key in reducer.  (The intermediate files a reducer
\* has read stay in place and keep their contents, so reading them again
\* gives what it read at the start.)
Records(w) ==
    IF wtask[w].TaskState = "Map"
    THEN Partition(wtask[w].Input, Len(wtask[w].InterMediates), NReduce)
    ELSE reduceLines(SortByKey(readFromLocalFile(wtask[w].InterMediates, disk)))

\* mapper: ioutil.ReadFile, mapf and the partition into buffer; reducer:
\* readFromLocalFile and sort.  log.Fatal if a file cannot be opened.
ReadInput(w) ==
    LET task == wtask[w]
        unreadable ==
            IF task.TaskState = "Map" THEN task.Input = NoInput
            ELSE \E i \in DOMAIN task.InterMediates : task.InterMediates[i] \notin DOMAIN disk
    IN  /\ pc[w] = "exec"
        /\ IF unreadable
           THEN /\ pc' = [pc EXCEPT ![w] = "dead"]
                /\ wtask' = [wtask EXCEPT ![w] = ZeroTask]
           ELSE /\ pc' = [pc EXCEPT ![w] = "create"]
                /\ UNCHANGED wtask
        /\ UNCHANGED <<InputFiles, NReduce, mvars, sweeper, disk>>

\* ioutil.TempFile succeeds: a new, empty file
TempFile(w) ==
    /\ pc[w] = "create"
    /\ disk' = [f \in DOMAIN disk \cup {TempName(w)} |->
                   IF f = TempName(w) THEN <<>> ELSE disk[f]]
    /\ pc' = [pc EXCEPT ![w] = "write"]
    /\ UNCHANGED <<InputFiles, NReduce, mvars, sweeper, wtask>>

\* enc.Encode(&kv) in writeToLocalFile, fmt.Fprintf in reducer: the next
\* record is appended to the open file
WriteRecord(w) ==
    LET file == disk[TempName(w)] IN
    /\ pc[w] = "write"
    /\ Len(file) < Len(Records(w))
    /\ disk' = [disk EXCEPT ![TempName(w)] = Append(file, Records(w)[Len(file) + 1])]
    /\ UNCHANGED <<InputFiles, NReduce, mvars, sweeper, pc, wtask>>

\* Where the worker goes once the file for bucket i (or mr-out-<Id>) is
\* done, and the task it holds then
AfterFile(w) ==
    IF wtask[w].TaskState = "Map"
    THEN LET out == Append(wtask[w].InterMediates, FinalName(w)) IN
         [pc   |-> IF Len(out) < NReduce THEN "create" ELSE "report",
          task |-> [wtask[w] EXCEPT !.InterMediates = out]]
    ELSE [pc |-> "report", task |-> wtask[w]]

\* tempFile.Close() and os.Rename(tempFile.Name(), name) succeed: the file
\* replaces whatever the final name held, in one step
CloseAndRename(w) ==
    /\ pc[w] = "write"
    /\ Len(disk[TempName(w)]) = Len(Records(w))
    /\ disk' = [f \in (DOMAIN disk \ {TempName(w)}) \cup {FinalName(w)} |->
                   IF f = FinalName(w) THEN disk[TempName(w)] ELSE disk[f]]
    /\ pc' = [pc EXCEPT ![w] = AfterFile(w).pc]
    /\ wtask' = [wtask EXCEPT ![w] = AfterFile(w).task]
    /\ UNCHANGED <<InputFiles, NReduce, mvars, sweeper>>

FileInit ==
    /\ Init
    /\ InputFiles <= MaxFilesFine
    /\ NReduce <= MaxReduceFine

\* With the one input file FileInit allows, every queue entry has a record:
\* the master does not panic, call never fails to dial, and CallFails is not
\* among the steps.
FileNext ==
    \/ \E w \in Workers : AssignTask(w)
    \/ \E w \in Workers : TaskCompleted(w)
    \/ \E task \in BagToSet(pending) : processTaskResult(task)
    \/ catchTimeOut
    \/ Tick
    \/ \E w \in Workers : ReadInput(w)
    \/ \E w \in Workers : TempFile(w)
    \/ \E w \in Workers : WriteRecord(w)
    \/ \E w \in Workers : CloseAndRename(w)
    \/ \E w \in Workers : WakeUp(w)

\* Every file system call succeeds (unless the file does not exist)
FileSpec == FileInit /\ [][FileNext]_vars

\* ------------------------------------------- file system calls that fail
\* ioutil.ReadFile in mapper or os.Open in readFromLocalFile returns an
\* error: log.Fatal
ReadFails(w) ==
    /\ pc[w] = "exec"
    /\ pc' = [pc EXCEPT ![w] = "dead"]
    /\ wtask' = [wtask EXCEPT ![w] = ZeroTask]
    /\ UNCHANGED <<InputFiles, NReduce, mvars, sweeper, disk>>

\* ioutil.TempFile returns an error: log.Fatal
TempFileFails(w) ==
    /\ pc[w] = "create"
    /\ pc' = [pc EXCEPT ![w] = "dead"]
    /\ wtask' = [wtask EXCEPT ![w] = ZeroTask]
    /\ UNCHANGED <<InputFiles, NReduce, mvars, sweeper, disk>>

\* enc.Encode returns an error in writeToLocalFile: log.Fatal.  (reducer does
\* not look at what fmt.Fprintf returns; a failed Fprintf is not modelled.)
EncodeFails(w) ==
    /\ pc[w] = "write"
    /\ wtask[w].TaskState = "Map"
    /\ Len(disk[TempName(w)]) < Len(Records(w))
    /\ pc' = [pc EXCEPT ![w] = "dead"]
    /\ wtask' = [wtask EXCEPT ![w] = ZeroTask]
    /\ UNCHANGED <<InputFiles, NReduce, mvars, sweeper, disk>>

\* os.Rename returns an error: neither writeToLocalFile nor reducer looks at
\* it.  The final name keeps what it held, if anything; the worker goes on
\* as after a rename that worked.
RenameFails(w) ==
    /\ pc[w] = "write"
    /\ Len(disk[TempName(w)]) = Len(Records(w))
    /\ pc' = [pc EXCEPT ![w] = AfterFile(w).pc]
    /\ wtask' = [wtask EXCEPT ![w] = AfterFile(w).task]
    /\ UNCHANGED <<InputFiles, NReduce, mvars, sweeper, disk>>

FaultNext ==
    \/ FileNext
    \/ \E w \in Workers : ReadFails(w)
    \/ \E w \in Workers : TempFileFails(w)
    \/ \E w \in Workers : EncodeFails(w)
    \/ \E w \in Workers : RenameFails(w)

FaultInit ==
    /\ FileInit
    /\ NReduce <= MaxReduceFault

\* Any of these file system calls may fail
FaultSpec == FaultInit /\ [][FaultNext]_vars

\* ------------------------------------------------------- the test harness
\* mrsequential: every input mapped in turn, all pairs sorted, one line per key
RECURSIVE AllPairs(_)
AllPairs(n) == IF n = 0 THEN <<>> ELSE AllPairs(n - 1) \o mapf(n - 1)

SequentialOutput == reduceLines(SortByKey(AllPairs(InputFiles)))

\* "sort mr-out*": the lines of the output files that exist, sorted
RECURSIVE OutLines(_)
OutLines(n) ==
    IF n = 0 THEN <<>>
    ELSE OutLines(n - 1)
         \o (IF OutName(n - 1) \in DOMAIN disk THEN disk[OutName(n - 1)] ELSE <<>>)

MergedOutput == SortByKey(OutLines(NReduce))

\* ---------------------------------------------------------------- claims
\* The model's bound on accepted Map reports has been reached: from here on
\* the model refuses reports the code would take.
BoundReached == AcceptedMaps >= InputFiles + MaxRemerge

\* C1: with one worker that keeps running its loop (the others may stop),
\* Done() eventually returns true.  (Stated for the runs that stay within the
\* model's bound on accepted reports.)
C1_DoneEventually == <>(Done \/ BoundReached)

\* C2: when the job is done, the merged and sorted contents of the mr-out-*
\* files equal the output of a sequential run: every key once, with
\* reducef of all its values.
C2_OutputMatchesSequential == Done => MergedOutput = SequentialOutput

\* C3: no bucket of the intermediate matrix ever holds two references
\* produced by the same Map task (a task's files are merged at most once).
C3_MergedAtMostOnce ==
    \A r \in DOMAIN InterMediates :
        \A i, j \in DOMAIN InterMediates[r] :
            i # j => InterMediates[r][i] # InterMediates[r][j]

\* C4: every Reduce task that has been built carries exactly one reference
\* mr-<m>-<r> from every Map task m in 0..N-1, none missing and none extra.
C4_ReduceTaskHasFullBucket ==
    \A r \in DOMAIN TaskMeta :
        LET task == TaskMeta[r].TaskPtr IN
        task.TaskState = "Reduce" =>
            /\ Len(task.InterMediates) = InputFiles
            /\ {task.InterMediates[i] : i \in DOMAIN task.InterMediates}
                  = {InterName(m, r) : m \in 0..(InputFiles - 1)}

\* The status changes a TaskRecord may make
AllowedMoves ==
    {<<"Idle", "InProgress">>, <<"InProgress", "Completed">>, <<"InProgress", "Idle">>}

\* C5: within one record set, a record's status only moves Idle->InProgress,
\* InProgress->Completed or InProgress->Idle; Completed is terminal and Idle
\* never becomes Completed directly.
C5_StatusMoves ==
    [][\A id \in DOMAIN TaskMeta :
          (/\ id \in DOMAIN TaskMeta'
           /\ TaskMeta'[id].TaskPtr = TaskMeta[id].TaskPtr
           /\ TaskMeta'[id].TaskStatus # TaskMeta[id].TaskStatus)
          => <<TaskMeta[id].TaskStatus, TaskMeta'[id].TaskStatus>> \in AllowedMoves]_vars

\* C6: the phase changes only from Map to Reduce or from Reduce to Exit, and
\* only when every record of the phase being left is Completed.
C6_PhaseMonotone ==
    [][Phase' # Phase =>
          /\ <<Phase, Phase'>> \in {<<"Map", "Reduce">>, <<"Reduce", "Exit">>}
          /\ allTaskDone(TaskMeta)]_vars

\* C7: once the phase is Exit it stays Exit (so Done() stays true), and no
\* record set or queue entry is created afterwards.
C7_ExitIsTerminal ==
    [][Phase = "Exit" =>
          /\ Phase' = "Exit"
          /\ DOMAIN TaskMeta' = DOMAIN TaskMeta
          /\ \A id \in DOMAIN TaskMeta : TaskMeta'[id].TaskPtr = TaskMeta[id].TaskPtr
          /\ Len(TaskQueue') <= Len(TaskQueue)]_vars

\* Worker w's TaskCompleted call returns in this step
Reported(w) == pc[w] = "report" /\ pc'[w] = "fetch"

\* C8: a TaskCompleted call whose phase tag is the current phase and whose
\* record is already Completed changes nothing: not the matrix, a record,
\* the queue or the phase, and it starts no result processing that could
\* change the phase later.
C8_DuplicateReportIsNoOp ==
    [][\A w \in Workers :
          (/\ Reported(w)
           /\ wtask[w].TaskState = Phase
           /\ wtask[w].Id \in DOMAIN TaskMeta
           /\ TaskMeta[wtask[w].Id].TaskStatus = "Completed")
          => UNCHANGED mvars]_vars

\* C8 witness: a worker is about to report a task of the current phase whose
\* record a first report has already made Completed, and the call can run.
C8_Witness ==
    \E w \in Workers :
        /\ pc[w] = "report"
        /\ wtask[w].TaskState = Phase
        /\ wtask[w].Id \in DOMAIN TaskMeta
        /\ TaskMeta[wtask[w].Id].TaskStatus = "Completed"
        /\ ENABLED TaskCompleted(w)

\* C9: a TaskCompleted call whose phase tag differs from the current phase
\* returns and changes nothing, whether or not the id has a record.
C9_StaleReportIsNoOp ==
    [][\A w \in Workers :
          (Reported(w) /\ wtask[w].TaskState # Phase) => UNCHANGED mvars]_vars

\* C9 witness: a worker is about to report a Map task after the phase has
\* become Reduce, the task's id has no record in the Reduce record set, some
\* Reduce record is not Completed, and the call can run.
C9_Witness ==
    \E w \in Workers :
        /\ pc[w] = "report"
        /\ wtask[w].TaskState = "Map"
        /\ Phase = "Reduce"
        /\ wtask[w].Id \notin DOMAIN TaskMeta
        /\ ~allTaskDone(TaskMeta)
        /\ ENABLED TaskCompleted(w)

\* Worker w's AssignTask call returns in this step
Assigned(w) == pc[w] = "fetch" /\ pc'[w] \in {"exec", "wait", "exited"}

\* C10: AssignTask on a non-empty queue removes the head, sets that task's
\* record to InProgress with a fresh dispatch time and returns the task; on
\* an empty queue it returns Exit if the phase is Exit and Wait otherwise,
\* and changes nothing.
C10_AssignTaskResult ==
    [][\A w \in Workers :
          Assigned(w) =>
             IF Len(TaskQueue) > 0
             THEN /\ TaskQueue' = Tail(TaskQueue)
                  /\ wtask'[w] = Head(TaskQueue)
                  /\ Head(TaskQueue).Id \in DOMAIN TaskMeta'
                  /\ TaskMeta'[Head(TaskQueue).Id].TaskStatus = "InProgress"
                  /\ TaskMeta'[Head(TaskQueue).Id].Age = 0
                  /\ mstate' = "running"
             ELSE /\ wtask'[w] = Sentinel(IF Phase = "Exit" THEN "Exit" ELSE "Wait")
                  /\ UNCHANGED mvars]_vars

\* C11: TaskCompleted commits in one critical section: whenever the mutex is
\* free, no accepted result is still waiting to be processed, every Completed
\* Map record's files are in the matrix, and a record set that is all
\* Completed has already moved the phase on.
C11_CompletionIsSynchronous ==
    mstate = "running" =>
        /\ pending = EmptyBag
        /\ Phase = "Map" =>
              \A id \in DOMAIN TaskMeta :
                  TaskMeta[id].TaskStatus = "Completed" =>
                      \A r \in DOMAIN InterMediates :
                          \E i \in DOMAIN InterMediates[r] :
                              InterMediates[r][i] = InterName(id, r)
        /\ Phase # "Exit" => ~allTaskDone(TaskMeta)

\* The number of records the phase's record set has
RecordCount == IF Phase = "Map" THEN InputFiles ELSE NReduce

TaskPtrs(meta) == [id \in DOMAIN meta |-> meta[id].TaskPtr]

\* C13: the Reduce record set is built and its tasks enqueued only in a step
\* that leaves the Map phase, and the phase is set only from Map to Reduce
\* and from Reduce to Exit: with the phase never going back, each transition
\* happens once.
C13_TransitionsFireOnce ==
    [][/\ TaskPtrs(TaskMeta') # TaskPtrs(TaskMeta) => Phase = "Map"
       /\ Phase' # Phase => \/ Phase = "Map" /\ Phase' = "Reduce"
                            \/ Phase = "Reduce" /\ Phase' = "Exit"]_vars

\* C14: no send on the task channel blocks, so the mutex is never held
\* forever.
C14_NoSendBlocks == mstate # "blocked"

\* The records a sweep has to reclaim: InProgress and dispatched more than
\* StalenessThreshold seconds ago
StaleRecords ==
    {id \in DOMAIN TaskMeta : /\ TaskMeta[id].TaskStatus = "InProgress"
                              /\ TaskMeta[id].Age > StalenessThreshold}

\* This step is a round of the sweep loop, run while the phase is not Exit:
\* the round ends (the loop sleeps again) or hangs in a channel send.
Swept ==
    /\ sweeper = "ready"
    /\ mstate = "running"
    /\ Phase # "Exit"
    /\ \/ sweeper' = "sleep"
       \/ mstate' = "blocked" /\ pending' = pending

\* C15: a round of the sweep run while the phase is not Exit ends, appends
\* to the queue the task of every stale record and of no other (each once),
\* resets exactly those records to Idle, leaves every other record as it was,
\* and leaves the phase and the intermediate matrix unchanged.
C15_SweepReclaimsExactlyStale ==
    [][Swept =>
          LET added == SubSeq(TaskQueue', Len(TaskQueue) + 1, Len(TaskQueue')) IN
          /\ sweeper' = "sleep"
          /\ mstate' = "running"
          /\ SubSeq(TaskQueue', 1, Len(TaskQueue)) = TaskQueue
          /\ Len(added) = Cardinality(StaleRecords)
          /\ {added[i] : i \in DOMAIN added} = {TaskMeta[id].TaskPtr : id \in StaleRecords}
          /\ DOMAIN TaskMeta' = DOMAIN TaskMeta
          /\ \A id \in DOMAIN TaskMeta :
                IF id \in StaleRecords
                THEN /\ TaskMeta'[id].TaskStatus = "Idle"
                     /\ TaskMeta'[id].TaskPtr = TaskMeta[id].TaskPtr
                ELSE TaskMeta'[id] = TaskMeta[id]
          /\ UNCHANGED <<Phase, InterMediates>>]_vars

\* C15 witness: a round of the sweep is about to run with one record stale
\* and another InProgress within the threshold.
C15_Witness ==
    /\ ENABLED catchTimeOut
    /\ Phase # "Exit"
    /\ StaleRecords # {}
    /\ \E id \in DOMAIN TaskMeta : /\ TaskMeta[id].TaskStatus = "InProgress"
                                   /\ TaskMeta[id].Age <= StalenessThreshold

\* C16: a worker about to report has every file it names in place, and so
\* has every reference in the master's matrix: a worker whose file system
\* call failed has terminated instead.
C16_ReportedFilesInPlace ==
    /\ \A w \in Workers :
          pc[w] = "report" =>
              IF wtask[w].TaskState = "Map"
              THEN \A i \in DOMAIN wtask[w].InterMediates :
                       wtask[w].InterMediates[i] \in DOMAIN disk
              ELSE OutName(wtask[w].Id) \in DOMAIN disk
    /\ \A r \in DOMAIN InterMediates :
          \A i \in DOMAIN InterMediates[r] : InterMediates[r][i] \in DOMAIN disk

\* C17: a worker never goes on to execute the unfilled reply of an
\* AssignTask call that failed (only such a reply is a Map task without an
\* input file).
C17_FailedCallIsFatal ==
    \A w \in Workers : ~(pc[w] = "exec" /\ wtask[w] = ZeroTask)

\* The lists of intermediate files a Reduce task for bucket r can carry
FileLists(r) ==
    UNION {[1..k -> {InterName(m, r) : m \in 0..(InputFiles - 1)}] :
              k \in 1..(InputFiles + MaxRemerge)}

\* The complete outputs an execution of Reduce task r can write
WholeOutputs(r) ==
    LET whole == [f \in {InterName(m, r) : m \in 0..(InputFiles - 1)} |->
                     Partition(f[2], r, NReduce)]
    IN  {reduceLines(SortByKey(readFromLocalFile(files, whole))) : files \in FileLists(r)}

\* The contents make the file named f whole: mr-<m>-<r> holds all the pairs
\* of Map task m for bucket r, mr-out-<r> all the lines of one execution of
\* Reduce task r.
Whole(f, contents) ==
    IF f[1] = "mr"
    THEN /\ f[2] \in 0..(InputFiles - 1)
         /\ f[3] \in 0..(NReduce - 1)
         /\ contents = Partition(f[2], f[3], NReduce)
    ELSE /\ f[2] \in 0..(NReduce - 1)
         /\ contents \in WholeOutputs(f[2])

\* C18: no file is there at the start, and every step that puts a file
\* under a final name, or changes what a final name holds, leaves a whole
\* file there, whatever other executions of the same task are writing at
\* that moment: at every instant each file under a final name is whole.
C18_FinalFilesWhole ==
    [][\A f \in DOMAIN disk' :
          (/\ f[1] \in {"mr", "mr-out"}
           /\ f \in DOMAIN disk => disk'[f] # disk[f])
          => Whole(f, disk'[f])]_vars

\* C18 witness: one worker has written part of its temporary file for a
\* final name that another execution of the same task, which is about to
\* report, has already put in place.
C18_Witness ==
    \E w1, w2 \in Workers :
        /\ w1 # w2
        /\ pc[w1] = "write"
        /\ pc[w2] = "report"
        /\ wtask[w1].Id = wtask[w2].Id
        /\ wtask[w1].TaskState = wtask[w2].TaskState
        /\ FinalName(w1) \in DOMAIN disk
        /\ Len(disk[TempName(w1)]) > 0
        /\ Len(disk[TempName(w1)]) < Len(Records(w1))

\* C19: once the phase has been Exit (it is Exit, or a worker has been told
\* to exit, which AssignTask does in phase Exit only), the next round of the
\* sweep loop ends the loop and reclaims nothing.
C19_SweepEndsAfterExit ==
    [][(/\ Phase = "Exit" \/ \E w \in Workers : pc[w] = "exited"
        /\ sweeper = "ready"
        /\ sweeper' # "ready")
       => /\ sweeper' = "stopped"
          /\ UNCHANGED <<TaskQueue, TaskMeta>>]_vars

\* C20: every pair in an intermediate file mr-<m>-<r> has ihash(key) mod R
\* = r, with r in 0..R-1, so that equal keys of any two files are in the
\* same bucket; and a Map task executed again leaves in each of its files
\* what the first execution wrote.
C20_KeyDeterminesBucket ==
    [][\A f \in DOMAIN disk' :
          (disk' # disk /\ f[1] = "mr") =>
              /\ f[3] \in 0..(NReduce - 1)
              /\ \A i \in DOMAIN disk'[f] : ihash(disk'[f][i].Key) % NReduce = f[3]
              /\ \A g \in DOMAIN disk' :
                    g[1] = "mr" =>
                        \A i \in DOMAIN disk'[f], j \in DOMAIN disk'[g] :
                            disk'[f][i].Key = disk'[g][j].Key => f[3] = g[3]
              /\ f \in DOMAIN disk => disk'[f] = disk[f]]_vars

\* C20 witness: the files of two Map tasks that share a key are on disk,
\* there is more than one bucket, and a worker is about to execute one of
\* the two tasks again.
C20_Witness ==
    /\ NReduce > 1
    /\ \E m1, m2 \in 0..(InputFiles - 1) :
          /\ m1 # m2
          /\ \A r \in 0..(NReduce - 1) :
                {InterName(m1, r), InterName(m2, r)} \subseteq DOMAIN disk
          /\ \E r \in 0..(NReduce - 1) :
                \E i \in DOMAIN disk[InterName(m1, r)], j \in DOMAIN disk[InterName(m2, r)] :
                    disk[InterName(m1, r)][i].Key = disk[InterName(m2, r)][j].Key
          /\ \E w \in Workers :
                /\ pc[w] = "exec"
                /\ wtask[w].TaskState = "Map"
                /\ wtask[w].Id = m1
                /\ wtask[w].Input # NoInput

\* C21: a record's task is in the queue exactly when the record is Idle,
\* the queue holds nothing but tasks of the record set, and none twice.
C21_QueueIsTheIdleTasks ==
    /\ \A id \in DOMAIN TaskMeta :
          (TaskMeta[id].TaskStatus = "Idle")
             <=> (\E i \in DOMAIN TaskQueue : TaskQueue[i] = TaskMeta[id].TaskPtr)
    /\ \A i \in DOMAIN TaskQueue :
          /\ TaskQueue[i].Id \in DOMAIN TaskMeta
          /\ TaskMeta[TaskQueue[i].Id].TaskPtr = TaskQueue[i]
    /\ \A i, j \in DOMAIN TaskQueue : i # j => TaskQueue[i] # TaskQueue[j]

\* C22: the task an AssignTask call takes from the queue is a task of the
\* current phase, and the record set has a record for its id that points to
\* this very task.
C22_AssignedTaskIsCurrent ==
    [][\A w \in Workers :
          (Assigned(w) /\ Len(TaskQueue) > 0) =>
             /\ Head(TaskQueue).TaskState = Phase
             /\ Head(TaskQueue).Id \in DOMAIN TaskMeta
             /\ TaskMeta[Head(TaskQueue).Id].TaskPtr = Head(TaskQueue)]_vars

\* C23: whenever Done() returns true (the phase is Exit and the mutex can
\* be taken), every output file mr-out-<r>, r in 0..R-1, is in place.
C23_DoneHasAllOutputs ==
    (Done /\ mstate = "running") =>
        \A r \in 0..(NReduce - 1) : OutName(r) \in DOMAIN disk

\* This step resets record id from InProgress to Idle (a reclaim)
Reclaimed(id) ==
    /\ TaskMeta[id].TaskStatus = "InProgress"
    /\ id \in DOMAIN TaskMeta'
    /\ TaskMeta'[id].TaskPtr = TaskMeta[id].TaskPtr
    /\ TaskMeta'[id].TaskStatus = "Idle"

\* C24: the time a record counts is the time since its latest assignment:
\* an AssignTask call that hands out a task starts the record's time at
\* zero, whatever it was; while the record stays InProgress its time grows
\* only as the clock does; and a record is reclaimed only when that time is
\* more than the staleness threshold.
C24_StalenessFromLatestDispatch ==
    [][/\ \A w \in Workers :
             (Assigned(w) /\ Len(TaskQueue) > 0 /\ Head(TaskQueue).Id \in DOMAIN TaskMeta)
                => /\ TaskMeta'[Head(TaskQueue).Id].TaskStatus = "InProgress"
                   /\ TaskMeta'[Head(TaskQueue).Id].Age = 0
       /\ \A id \in DOMAIN TaskMeta :
             /\ Reclaimed(id) => TaskMeta[id].Age > StalenessThreshold
             /\ (/\ TaskMeta[id].TaskStatus = "InProgress"
                 /\ id \in DOMAIN TaskMeta'
                 /\ TaskMeta'[id].TaskStatus = "InProgress"
                 /\ TaskMeta'[id].Age # 0)
                => TaskMeta'[id].Age \in
                      {TaskMeta[id].Age, min(TaskMeta[id].Age + SweepInterval, AgeCap)}]_vars

\* C24 witness: a task that was reclaimed and assigned again (two workers
\* hold it) has been InProgress for exactly the threshold since its latest
\* assignment, and a round of the sweep is about to run.
C24_Witness ==
    /\ ENABLED catchTimeOut
    /\ Phase # "Exit"
    /\ \E id \in DOMAIN TaskMeta :
          /\ TaskMeta[id].TaskStatus = "InProgress"
          /\ TaskMeta[id].Age = StalenessThreshold
          /\ \E w1, w2 \in Workers :
                /\ w1 # w2
                /\ pc[w1] \in {"exec", "report"}
                /\ pc[w2] \in {"exec", "report"}
                /\ wtask[w1] = TaskMeta[id].TaskPtr
                /\ wtask[w2] = TaskMeta[id].TaskPtr

====
